---- MODULE Spec2Model ----
(***************************************************************************)
(* Model of gqlauth/jwt/types_.py: the JWT types of strawberry-django-auth *)
(* (TokenPayloadType, TokenType, ObtainJSONWebTokenType, VerifyTokenType). *)
(*                                                                         *)
(* Datetimes are integers (ticks of the UTC clock), timedeltas are integer *)
(* differences.  An Optional[T] value is the empty sequence (None) or the  *)
(* one-element sequence holding the value.  A call that may raise returns  *)
(* a record [raised, value]: raised is None or holds the exception name.   *)
(***************************************************************************)
EXTENDS Integers, Sequences, FiniteSets, TLC

\* ---- bounds -------------------------------------------------------------
MaxTime == 2
MaxDelta == 1
NumUsers == 2
MaxRefreshTokens == 1

None == <<>>
Some(v) == <<v>>

Times == 0..MaxTime
Deltas == (-1)..MaxDelta
PKs == 1..NumUsers

\* ---- gqlauth.core.constants.Messages, as used by types_.py --------------
INVALID_CREDENTIALS == "INVALID_CREDENTIALS"
NOT_VERIFIED == "NOT_VERIFIED"
EXPIRED_TOKEN == "EXPIRED_TOKEN"
UNAUTHENTICATED == "UNAUTHENTICATED"

\* ---- exceptions ---------------------------------------------------------
TokenExpired == "TokenExpired"
PermissionDenied == "PermissionDenied"
DoesNotExist == "DoesNotExist"

Return(v) == [raised |-> None, value |-> v]
Raise(e) == [raised |-> Some(e), value |-> None]

VARIABLES
    now,            \* datetime.utcnow()
    app_settings,   \* settings.GQL_AUTH
    users,          \* USER_MODEL rows with their UserStatus: pk -> None | Some(status)
    refreshTokens,  \* RefreshToken rows, in creation order
    last            \* the last call: its arguments, its result, the calls it made

vars == <<now, app_settings, users, refreshTokens, last>>

UserStatus == [verified : BOOLEAN, archived : BOOLEAN]

Settings == [ALLOW_LOGIN_NOT_VERIFIED : BOOLEAN,
             JWT_LONG_RUNNING_REFRESH_TOKEN : BOOLEAN,
             JWT_EXPIRATION_DELTA : Deltas]

\* ---- TokenPayloadType ---------------------------------------------------
\* __post_init__: "if not self.exp" is true for None only (a datetime is
\* never falsy).
not_exp(exp) == exp = None

post_init_always(self, delta) ==
    [self EXCEPT !.exp = Some(self.origIat + delta)]

post_init(self, delta) ==
    IF not_exp(self.exp)
    THEN [self EXCEPT !.exp = Some(self.origIat + delta)]
    ELSE self

\* TokenPayloadType(pk=..., origIat=..., exp=...): the dataclass __init__
\* fills origIat from default_factory=datetime.utcnow and exp from
\* default=None, then runs __post_init__.  The stored exp is a datetime.
TokenPayloadType(pk, origIat, exp, clock, delta) ==
    LET self == [pk |-> pk,
                 origIat |-> IF origIat = None THEN clock ELSE origIat[1],
                 exp |-> exp]
        done == post_init(self, delta)
    IN  [pk |-> done.pk, origIat |-> done.origIat, exp |-> done.exp[1]]

\* ---- TokenType ----------------------------------------------------------
\* The encoded string of a TokenType is opaque to this module; a TokenType
\* is modelled by its payload.
TokenType(payload) == [payload |-> payload]

is_expired_inclusive(self, clock) == self.payload.exp <= clock

is_expired(self, clock) == self.payload.exp < clock

\* TokenType.from_token, given what JWT_DECODE_HANDLER(token) returned.
TokenType_from_token(token_type, clock) ==
    IF is_expired(token_type, clock) THEN Raise(TokenExpired) ELSE Return(token_type)

\* USER_MODEL.objects.get(pk=payload.pk)
get_user_instance(self, db) ==
    IF self.payload.pk \in DOMAIN db /\ db[self.payload.pk] # None
    THEN Return(self.payload.pk)
    ELSE Raise(DoesNotExist)

\* ---- VerifyTokenType ----------------------------------------------------
VerifyTokenType(success, token, user, errors) ==
    [success |-> success, token |-> token, user |-> user, errors |-> errors]

\* The except clauses of VerifyTokenType.from_token.
VerifyTokenType_except(exc) ==
    IF exc = DoesNotExist
    THEN VerifyTokenType(FALSE, None, None, Some(INVALID_CREDENTIALS))
    ELSE VerifyTokenType(FALSE, None, None, Some(EXPIRED_TOKEN))

VerifyTokenType_from_token_lookup_first(token_type, clock, db) ==
    LET u == get_user_instance(token_type, db)
        t == TokenType_from_token(token_type, clock)
    IN  IF u.raised # None THEN VerifyTokenType_except(u.raised[1])
        ELSE IF t.raised # None THEN VerifyTokenType_except(t.raised[1])
        ELSE VerifyTokenType(TRUE, Some(t.value), Some(u.value), None)

\* VerifyTokenType.from_token, given what JWT_DECODE_HANDLER(token) returned.
VerifyTokenType_from_token(token_type, clock, db) ==
    LET t == TokenType_from_token(token_type, clock)
    IN  IF t.raised # None THEN VerifyTokenType_except(t.raised[1])
        ELSE LET u == get_user_instance(t.value, db)
             IN  IF u.raised # None THEN VerifyTokenType_except(u.raised[1])
                 ELSE VerifyTokenType(TRUE, Some(t.value), Some(u.value), None)

\* ---- collaborators of ObtainJSONWebTokenType ----------------------------
\* The outcomes of django.contrib.auth.authenticate(request, **args) that
\* ObtainJSONWebTokenType.authenticate distinguishes: an existing user, no
\* user, or an exception of the two kinds it catches.
BackendOutcomes(db) ==
    {Return(Some(pk)) : pk \in {k \in DOMAIN db : db[k] # None}}
        \cup {Return(None), Raise(PermissionDenied), Raise(TokenExpired)}

\* The outcomes of the injected JWT_PAYLOAD_HANDLER: it returns a token or
\* raises.
HandlerOutcomes == {"token", TokenExpired, PermissionDenied}

\* JWT_PAYLOAD_HANDLER(info, user): a token over a fresh payload for the user.
JWT_PAYLOAD_HANDLER(user, outcome, clock, settings) ==
    IF outcome = "token"
    THEN Return(TokenType(TokenPayloadType(user, None, None, clock,
                                           settings.JWT_EXPIRATION_DELTA)))
    ELSE Raise(outcome)

TokenType_from_user(user, outcome, clock, settings) ==
    JWT_PAYLOAD_HANDLER(user, outcome, clock, settings)

\* RefreshToken.from_user(user): a new RefreshToken row for the user.
RefreshToken_from_user(user) == [user |-> user]

\* UserStatus.unarchive(user): clears the archived flag of the user's status.
UserStatus_unarchive(db, user) ==
    [db EXCEPT ![user] = Some([db[user][1] EXCEPT !.archived = FALSE])]

\* ---- ObtainJSONWebTokenType ---------------------------------------------
ObtainJSONWebTokenType(success, user, token, refresh_token, errors) ==
    [success |-> success, user |-> user, token |-> token,
     refresh_token |-> refresh_token, errors |-> errors]

\* The effect of a call: its outcome (res), the tables it leaves behind and
\* the collaborators it called, in order.
Effect(res, db, rts, calls) ==
    [res |-> res, users |-> db, refreshTokens |-> rts, calls |-> calls]

Count(calls, name) == Cardinality({i \in DOMAIN calls : calls[i] = name})

ObtainJSONWebTokenType_from_user_any_setting(user, outcome, db, rts, clock, settings) ==
    LET tok == TokenType_from_user(user, outcome, clock, settings)
    IN  IF tok.raised # None
        THEN Effect(tok, db, rts, <<"JWT_PAYLOAD_HANDLER">>)
        ELSE LET rt == RefreshToken_from_user(user)
             IN  Effect(Return(ObtainJSONWebTokenType(
                            TRUE, Some(user), Some(tok.value), Some(rt), None)),
                        db, Append(rts, rt),
                        <<"JWT_PAYLOAD_HANDLER", "RefreshToken.from_user">>)

\* ObtainJSONWebTokenType.from_user, given the outcome of the token handler.
ObtainJSONWebTokenType_from_user(user, outcome, db, rts, clock, settings) ==
    LET tok == TokenType_from_user(user, outcome, clock, settings)
    IN  IF tok.raised # None
        THEN Effect(tok, db, rts, <<"JWT_PAYLOAD_HANDLER">>)
        ELSE IF settings.JWT_LONG_RUNNING_REFRESH_TOKEN
             THEN LET rt == RefreshToken_from_user(user)
                  IN  Effect(Return(ObtainJSONWebTokenType(
                                 TRUE, Some(user), Some(tok.value), Some(rt), None)),
                             db, Append(rts, rt),
                             <<"JWT_PAYLOAD_HANDLER", "RefreshToken.from_user">>)
             ELSE Effect(Return(ObtainJSONWebTokenType(
                                 TRUE, Some(user), Some(tok.value), None, None)),
                         db, rts, <<"JWT_PAYLOAD_HANDLER">>)

unarchive_on_login_skipped(db, user) == Effect(Return(None), db, <<>>, <<>>)

\* "if user.status.archived is True: UserStatus.unarchive(user)"
unarchive_on_login(db, user) ==
    IF db[user][1].archived
    THEN Effect(Return(None), UserStatus_unarchive(db, user), <<>>,
                <<"UserStatus.unarchive">>)
    ELSE Effect(Return(None), db, <<>>, <<>>)

login_allowed_unconditionally(status, settings) == TRUE

\* "if user.status.verified or app_settings.ALLOW_LOGIN_NOT_VERIFIED"
login_allowed(status, settings) ==
    status.verified \/ settings.ALLOW_LOGIN_NOT_VERIFIED

\* The body of the try block of ObtainJSONWebTokenType.authenticate.
authenticate_try(backend, outcome, db, rts, clock, settings) ==
    IF backend.raised # None
    THEN Effect(backend, db, rts, <<"authenticate">>)
    ELSE IF backend.value = None
    THEN Effect(Return(ObtainJSONWebTokenType(
                    FALSE, None, None, None, Some(INVALID_CREDENTIALS))),
                db, rts, <<"authenticate">>)
    ELSE LET user == backend.value[1]
             un == unarchive_on_login(db, user)
         IN  IF login_allowed(db[user][1], settings)
             THEN LET fu == ObtainJSONWebTokenType_from_user(
                                user, outcome, un.users, rts, clock, settings)
                  IN  Effect(fu.res, fu.users, fu.refreshTokens,
                             <<"authenticate">> \o un.calls \o fu.calls)
             ELSE Effect(Return(ObtainJSONWebTokenType(
                             FALSE, None, None, None, Some(NOT_VERIFIED))),
                         un.users, rts, <<"authenticate">> \o un.calls)

authenticate_except_without_TokenExpired(exc) ==
    IF exc = PermissionDenied
    THEN Return(ObtainJSONWebTokenType(FALSE, None, None, None, Some(UNAUTHENTICATED)))
    ELSE Raise(exc)

authenticate_except_as_invalid(exc) ==
    IF exc = PermissionDenied
    THEN Return(ObtainJSONWebTokenType(FALSE, None, None, None, Some(INVALID_CREDENTIALS)))
    ELSE IF exc = TokenExpired
    THEN Return(ObtainJSONWebTokenType(FALSE, None, None, None, Some(EXPIRED_TOKEN)))
    ELSE Raise(exc)

\* The except clauses of ObtainJSONWebTokenType.authenticate.
authenticate_except(exc) ==
    IF exc = PermissionDenied
    THEN Return(ObtainJSONWebTokenType(FALSE, None, None, None, Some(UNAUTHENTICATED)))
    ELSE IF exc = TokenExpired
    THEN Return(ObtainJSONWebTokenType(FALSE, None, None, None, Some(EXPIRED_TOKEN)))
    ELSE Raise(exc)

ObtainJSONWebTokenType_authenticate(backend, outcome, db, rts, clock, settings) ==
    LET body == authenticate_try(backend, outcome, db, rts, clock, settings)
    IN  IF body.res.raised # None
        THEN Effect(authenticate_except(body.res.raised[1]),
                    body.users, body.refreshTokens, body.calls)
        ELSE body

\* ---- the state machine --------------------------------------------------
DecodedTokens ==
    {TokenType(TokenPayloadType(pk, Some(iat), Some(exp), 0, 0)) :
        pk \in PKs, iat \in Times, exp \in Times}

\* The user table: each primary key has no row, or a row with its status.
UserTables == [PKs -> {None} \cup {Some(s) : s \in UserStatus}]

TypeOK ==
    /\ now \in Times
    /\ app_settings \in Settings
    /\ users \in UserTables
    /\ Len(refreshTokens) <= MaxRefreshTokens

\* Login runs under either value of its two switches over any user table;
\* JWT_EXPIRATION_DELTA reaches it only inside the payload of the token.
Init ==
    /\ now = 0
    /\ app_settings \in {s \in Settings : s.JWT_EXPIRATION_DELTA = MaxDelta}
    /\ users \in UserTables
    /\ refreshTokens = <<>>
    /\ last = [op |-> "none"]

\* Token verification reads no setting: one value stands for them all.
InitToken ==
    /\ now = 0
    /\ app_settings = [ALLOW_LOGIN_NOT_VERIFIED |-> FALSE,
                       JWT_LONG_RUNNING_REFRESH_TOKEN |-> FALSE,
                       JWT_EXPIRATION_DELTA |-> MaxDelta]
    /\ users \in UserTables
    /\ refreshTokens = <<>>
    /\ last = [op |-> "none"]

\* Payload construction reads no table: the empty one stands for them all.
InitPayload ==
    /\ now = 0
    /\ app_settings \in Settings
    /\ users = [pk \in PKs |-> None]
    /\ refreshTokens = <<>>
    /\ last = [op |-> "none"]

\* datetime.utcnow() advances between calls.
Tick ==
    /\ now < MaxTime
    /\ now' = now + 1
    /\ UNCHANGED <<app_settings, users, refreshTokens, last>>

\* TokenPayloadType(pk=pk[, origIat=...][, exp=...])
NewTokenPayload ==
    \E pk \in PKs, origIat \in {None} \cup {Some(t) : t \in Times},
       exp \in {None} \cup {Some(t) : t \in Times} :
        /\ last' = [op |-> "TokenPayloadType", pk |-> pk, origIat |-> origIat,
                    exp |-> exp, now |-> now,
                    ret |-> TokenPayloadType(pk, origIat, exp, now,
                                             app_settings.JWT_EXPIRATION_DELTA)]
        /\ UNCHANGED <<now, app_settings, users, refreshTokens>>

\* TokenType.from_token(token)
FromToken ==
    \E token_type \in DecodedTokens :
        /\ last' = [op |-> "TokenType.from_token", decoded |-> token_type,
                    now |-> now, res |-> TokenType_from_token(token_type, now)]
        /\ UNCHANGED <<now, app_settings, users, refreshTokens>>

\* VerifyTokenType.from_token(token_input)
VerifyToken ==
    \E token_type \in DecodedTokens :
        /\ last' = [op |-> "VerifyTokenType.from_token", decoded |-> token_type,
                    now |-> now,
                    ret |-> VerifyTokenType_from_token(token_type, now, users)]
        /\ UNCHANGED <<now, app_settings, users, refreshTokens>>

\* ObtainJSONWebTokenType.from_user(info, user)
FromUser ==
    \E user \in {k \in PKs : users[k] # None}, outcome \in HandlerOutcomes :
        LET e == ObtainJSONWebTokenType_from_user(
                     user, outcome, users, refreshTokens, now, app_settings)
        IN  /\ Len(e.refreshTokens) <= MaxRefreshTokens
            /\ users' = e.users
            /\ refreshTokens' = e.refreshTokens
            /\ last' = [op |-> "ObtainJSONWebTokenType.from_user", user |-> user,
                        outcome |-> outcome, before |-> users,
                        tokensBefore |-> Len(refreshTokens),
                        res |-> e.res, calls |-> e.calls]
            /\ UNCHANGED <<now, app_settings>>

\* ObtainJSONWebTokenType.authenticate(info, input_)
Authenticate ==
    \E backend \in BackendOutcomes(users), outcome \in HandlerOutcomes :
        LET e == ObtainJSONWebTokenType_authenticate(
                     backend, outcome, users, refreshTokens, now, app_settings)
        IN  /\ Len(e.refreshTokens) <= MaxRefreshTokens
            /\ users' = e.users
            /\ refreshTokens' = e.refreshTokens
            /\ last' = [op |-> "ObtainJSONWebTokenType.authenticate",
                        backend |-> backend, outcome |-> outcome,
                        before |-> users, tokensBefore |-> Len(refreshTokens),
                        res |-> e.res, calls |-> e.calls]
            /\ UNCHANGED <<now, app_settings>>

\* Login: ObtainJSONWebTokenType.
Next ==
    \/ Tick
    \/ FromUser
    \/ Authenticate

Spec == Init /\ [][Next]_vars

\* Token verification: TokenType.from_token and VerifyTokenType.from_token.
NextToken ==
    \/ Tick
    \/ FromToken
    \/ VerifyToken

SpecToken == InitToken /\ [][NextToken]_vars

\* Payload construction: TokenPayloadType.
NextPayload ==
    \/ Tick
    \/ NewTokenPayload

SpecPayload == InitPayload /\ [][NextPayload]_vars

\* ---- claims -------------------------------------------------------------
IsAuthenticate == last.op = "ObtainJSONWebTokenType.authenticate"
IsFromUser == last.op = "ObtainJSONWebTokenType.from_user"
IsVerifyToken == last.op = "VerifyTokenType.from_token"
IsFromToken == last.op = "TokenType.from_token"
IsNewPayload == last.op = "TokenPayloadType"

Messages == {INVALID_CREDENTIALS, NOT_VERIFIED, EXPIRED_TOKEN, UNAUTHENTICATED}

\* The user the backends returned to the last authenticate call.
BackendUser == last.backend.value[1]
BackendAccepted == last.backend.raised = None /\ last.backend.value # None
Created == Len(refreshTokens) - last.tokensBefore

\* C1: every authenticate call returns, and what it returns is either
\* success=true with user and token set and no errors, or success=false
\* with no user, no token and errors one of the four messages.
C1_ResultShape ==
    IsAuthenticate =>
        /\ last.res.raised = None
        /\ LET r == last.res.value
           IN  \/ r.success /\ r.user # None /\ r.token # None /\ r.errors = None
               \/ /\ ~r.success
                  /\ r.user = None
                  /\ r.token = None
                  /\ r.errors \in {Some(m) : m \in Messages}

C1_Witness ==
    /\ IsAuthenticate
    /\ last.res.raised = None
    /\ ~last.res.value.success
    /\ last.res.value.errors = Some(EXPIRED_TOKEN)

\* C2: authenticate returns success=true only for a user the backends
\* returned who is verified or while ALLOW_LOGIN_NOT_VERIFIED is on; for a
\* returned user who is not verified while the setting is off the result is
\* success=false with NOT_VERIFIED and the token handler is not called.
C2_TokenOnlyWhenAllowed ==
    IsAuthenticate /\ last.res.raised = None =>
        /\ last.res.value.success =>
              /\ BackendAccepted
              /\ \/ last.before[BackendUser][1].verified
                 \/ app_settings.ALLOW_LOGIN_NOT_VERIFIED
        /\ ( /\ BackendAccepted
             /\ ~last.before[BackendUser][1].verified
             /\ ~app_settings.ALLOW_LOGIN_NOT_VERIFIED )
           => /\ ~last.res.value.success
              /\ last.res.value.errors = Some(NOT_VERIFIED)
              /\ Count(last.calls, "JWT_PAYLOAD_HANDLER") = 0

C2_Witness ==
    /\ IsAuthenticate
    /\ BackendAccepted
    /\ ~last.before[BackendUser][1].verified
    /\ ~last.before[BackendUser][1].archived
    /\ ~app_settings.ALLOW_LOGIN_NOT_VERIFIED
    /\ last.res.value.errors = Some(NOT_VERIFIED)

TokenIsExpired == last.decoded.payload.exp < last.now
TokenUserExists == users[last.decoded.payload.pk] # None

C4_VerifyOutcome ==
    IsVerifyToken =>
        LET r == last.ret
        IN  /\ r.success <=> (~TokenIsExpired /\ TokenUserExists)
            /\ r.success =>
                  /\ r.token = Some(last.decoded)
                  /\ r.user = Some(last.decoded.payload.pk)
                  /\ r.errors = None
            /\ TokenIsExpired =>
                  r = VerifyTokenType(FALSE, None, None, Some(EXPIRED_TOKEN))
            /\ (~TokenIsExpired /\ ~TokenUserExists) =>
                  r = VerifyTokenType(FALSE, None, None, Some(INVALID_CREDENTIALS))

C4_Witness ==
    /\ IsVerifyToken
    /\ TokenIsExpired
    /\ ~TokenUserExists
    /\ last.ret.errors = Some(EXPIRED_TOKEN)

\* C5: TokenType.from_token raises TokenExpired exactly when the payload's
\* exp is strictly before the current time and returns the decoded token
\* otherwise; a token checked at now = exp is returned.
C5_ExpiryIsStrict ==
    IsFromToken =>
        /\ last.decoded.payload.exp < last.now => last.res = Raise(TokenExpired)
        /\ last.decoded.payload.exp >= last.now => last.res = Return(last.decoded)
        /\ last.res.raised = None => last.res.value.payload.exp >= last.now

C5_Witness ==
    /\ IsFromToken
    /\ last.now > 0
    /\ last.decoded.payload.exp = last.now
    /\ last.res = Return(last.decoded)

\* C6: a login creates one refresh token when JWT_LONG_RUNNING_REFRESH_TOKEN
\* is on and the login succeeds, and none otherwise: from_user calls
\* RefreshToken.from_user once when it returns with the setting on and
\* never with the setting off, and an authenticate call that returns
\* success=false creates none.
C6_RefreshTokenOnLogin ==
    /\ IsAuthenticate =>
          /\ Created = Count(last.calls, "RefreshToken.from_user")
          /\ Created = IF /\ app_settings.JWT_LONG_RUNNING_REFRESH_TOKEN
                          /\ last.res.raised = None
                          /\ last.res.value.success
                       THEN 1 ELSE 0
          /\ last.res.raised = None =>
                (last.res.value.refresh_token # None <=> Created = 1)
    /\ IsFromUser =>
          /\ Created = Count(last.calls, "RefreshToken.from_user")
          /\ Created = IF /\ app_settings.JWT_LONG_RUNNING_REFRESH_TOKEN
                          /\ last.res.raised = None
                       THEN 1 ELSE 0

C6_Witness ==
    /\ IsAuthenticate
    /\ app_settings.JWT_LONG_RUNNING_REFRESH_TOKEN
    /\ last.res.raised = None
    /\ last.res.value.success
    /\ Created = 1
    /\ refreshTokens[Len(refreshTokens)].user = BackendUser

\* C7: when the backends return a user whose status is archived, the
\* status is un-archived before the verified check: after the call the user
\* is not archived, also when the call returns NOT_VERIFIED.
C7_UnarchiveOnLogin ==
    ( /\ IsAuthenticate
      /\ BackendAccepted
      /\ last.before[BackendUser][1].archived )
    => /\ ~users[BackendUser][1].archived
       /\ last.calls[2] = "UserStatus.unarchive"

C7_Witness ==
    /\ IsAuthenticate
    /\ BackendAccepted
    /\ last.before[BackendUser][1].archived
    /\ ~users[BackendUser][1].archived
    /\ last.res.raised = None
    /\ last.res.value.errors = Some(NOT_VERIFIED)

\* C8: a payload built without exp has exp = origIat + JWT_EXPIRATION_DELTA,
\* a payload built with exp keeps it, and a payload built without exp has
\* exp >= origIat when JWT_EXPIRATION_DELTA is not negative.
C8_DefaultExp ==
    IsNewPayload =>
        /\ last.exp = None =>
              last.ret.exp = last.ret.origIat + app_settings.JWT_EXPIRATION_DELTA
        /\ last.exp # None => last.ret.exp = last.exp[1]
        /\ (last.exp = None /\ app_settings.JWT_EXPIRATION_DELTA >= 0) =>
              last.ret.exp >= last.ret.origIat

C8_Witness ==
    /\ IsNewPayload
    /\ last.exp = None
    /\ app_settings.JWT_EXPIRATION_DELTA > 0
    /\ last.ret.exp > last.ret.origIat

====
